---- MODULE Spec2Model ----
(***************************************************************************)
(* Half-edge triangulation of umeshu (src/src/umeshu/Triangulation.h).     *)
(*                                                                         *)
(* Handles are integers, the null handle is 0.  Edge e owns the halfedges  *)
(* he1(e) = 2e-1 and he2(e) = 2e, which are each other's pair.  A store    *)
(* value is a record of the fields of every entity plus the exception (if  *)
(* any) that is propagating: an operator applied to a store whose err is   *)
(* not "none" returns it unchanged, which is how a C++ throw skips the     *)
(* rest of every enclosing function.                                       *)
(***************************************************************************)
EXTENDS Integers, FiniteSets, Sequences, TLC

\* ---------------------------------------------------------------- bounds
MaxNodes == 6
MaxEdges == 12
MaxFaces == 7
\* public operations a client performs on a mesh once it is built
MaxOps == 2
\* query points of locate have coordinates in 0..MaxCoord
MaxCoord == 8

Null == 0

NodeIds == 1..MaxNodes
EdgeIds == 1..MaxEdges
FaceIds == 1..MaxFaces
HalfedgeIds == 1..(2 * MaxEdges)

\* Points a client passes to add_node / split_edge / split_face.  The
\* connectivity operations never read a position.
Origin2 == <<0, 0>>
Points == {Origin2}

NoError == "none"
bad_topology_error == "bad_topology_error"
add_face_error_not_free == "add_face_error: half-edges are not free"
add_face_error_not_chain == "add_face_error: half-edges do not form a chain"
add_face_error_non_manifold == "add_face_error: attempting to create non-manifold mesh"
\* a loop of the code that never ends
Diverges == "diverges"

\* Point_location and Oriented_side
IN_FACE == "IN_FACE"
ON_EDGE == "ON_EDGE"
ON_NODE == "ON_NODE"
OUTSIDE_MESH == "OUTSIDE_MESH"
ON_POSITIVE_SIDE == "ON_POSITIVE_SIDE"
ON_NEGATIVE_SIDE == "ON_NEGATIVE_SIDE"
ON_ORIENTED_BOUNDARY == "ON_ORIENTED_BOUNDARY"

\* ------------------------------------------------------- the entity store
he1(e) == 2 * e - 1
he2(e) == 2 * e
pair(h) == IF h <= 0 THEN Null ELSE IF h % 2 = 1 THEN h + 1 ELSE h - 1
edge(h) == (h + 1) \div 2

MinOf(S) == CHOOSE x \in S : \A y \in S : x <= y

\* F applied to the value of v: a local variable v of the code, assigned
\* once and then read
Let(v, F(_)) == CHOOSE y \in {F(x) : x \in {v}} : TRUE

EmptyStore ==
  [ nodes         |-> {},
    position      |-> [n \in 0..MaxNodes |-> <<>>],
    node_halfedge |-> [n \in 0..MaxNodes |-> Null],
    edges         |-> {},
    origin        |-> [h \in 0..(2 * MaxEdges) |-> Null],
    next          |-> [h \in 0..(2 * MaxEdges) |-> Null],
    prev          |-> [h \in 0..(2 * MaxEdges) |-> Null],
    face          |-> [h \in 0..(2 * MaxEdges) |-> Null],
    faces         |-> {},
    face_halfedge |-> [f \in 0..MaxFaces |-> Null],
    err           |-> NoError ]

Throw(s, e) == [s EXCEPT !.err = e]

is_isolated(s, n) == s.node_halfedge[n] = Null
is_boundary(s, h) == s.face[h] = Null

LiveHalfedges(s) == {h \in HalfedgeIds : edge(h) \in s.edges}

get_new_node(s) ==
  LET n == MinOf(NodeIds \ s.nodes)
  IN  [s |-> [s EXCEPT !.nodes = @ \cup {n}], ret |-> n]

delete_node(s, n) ==
  [s EXCEPT !.nodes = @ \ {n}, !.position[n] = <<>>, !.node_halfedge[n] = Null]

\* a new edge is a stub: its two halfedges are each other's next and prev
get_new_edge(s) ==
  LET e == MinOf(EdgeIds \ s.edges)
      a == he1(e)
      b == he2(e)
  IN  [s |-> [s EXCEPT !.edges = @ \cup {e},
                       !.origin[a] = Null, !.origin[b] = Null,
                       !.next[a] = b, !.next[b] = a,
                       !.prev[a] = b, !.prev[b] = a,
                       !.face[a] = Null, !.face[b] = Null],
       ret |-> e]

delete_edge(s, e) ==
  LET a == he1(e)
      b == he2(e)
  IN  [s EXCEPT !.edges = @ \ {e},
                !.origin[a] = Null, !.origin[b] = Null,
                !.next[a] = Null, !.next[b] = Null,
                !.prev[a] = Null, !.prev[b] = Null,
                !.face[a] = Null, !.face[b] = Null]

get_new_face(s) ==
  LET f == MinOf(FaceIds \ s.faces)
  IN  [s |-> [s EXCEPT !.faces = @ \cup {f}], ret |-> f]

delete_face(s, f) ==
  [s EXCEPT !.faces = @ \ {f}, !.face_halfedge[f] = Null]

\* ------------------------------------------------------ connectivity core

\* The do-while walk of find_free_incident_halfedge(Node_handle): the
\* halfedge found, Null when the walk is back at he_start (the code throws
\* bad_topology_error), -1 when the walk never comes back to he_start.
RECURSIVE ffih_node_walk(_, _, _, _)
ffih_node_walk(s, he_iter, he_start, fuel) ==
  IF is_boundary(s, he_iter) THEN he_iter
  ELSE LET nx == pair(s.next[he_iter])
       IN  IF nx = he_start THEN Null
           ELSE IF fuel = 0 THEN -1
           ELSE ffih_node_walk(s, nx, he_start, fuel - 1)

\* find_free_incident_halfedge(Node_handle) that tests only the first
\* incoming halfedge
find_free_incident_halfedge_node_first(s, n) ==
  LET he_start == pair(s.node_halfedge[n])
  IN  IF is_boundary(s, he_start) THEN he_start ELSE Null

find_free_incident_halfedge_node(s, n) ==
  LET he_start == pair(s.node_halfedge[n])
  IN  ffih_node_walk(s, he_start, he_start, 2 * MaxEdges)

\* find_free_incident_halfedge(Halfedge_handle, Halfedge_handle)
RECURSIVE find_free_incident_halfedge_walk(_, _, _, _)
find_free_incident_halfedge_walk(s, h1, h2, fuel) ==
  IF is_boundary(s, h1) THEN h1
  ELSE LET nx == pair(s.next[h1])
       IN  IF nx = h2 THEN Null
           ELSE IF fuel = 0 THEN -1
           ELSE find_free_incident_halfedge_walk(s, nx, h2, fuel - 1)

find_free_incident_halfedge(s, h1, h2) ==
  find_free_incident_halfedge_walk(s, h1, h2, 2 * MaxEdges)

\* attach_halfedge_to_node that makes he the halfedge handle of n also when
\* n is not isolated
attach_halfedge_to_node_moves_handle(s, he, n) ==
  IF s.err # NoError THEN s
  ELSE
    Let([s EXCEPT !.origin[he] = n], LAMBDA s1 :
      IF is_isolated(s1, n)
      THEN [s1 EXCEPT !.node_halfedge[n] = he,
                      !.prev[he] = pair(he),
                      !.next[pair(he)] = he]
      ELSE
        Let(find_free_incident_halfedge_node(s1, n), LAMBDA free_in_he :
          IF free_in_he = Null THEN Throw(s1, bad_topology_error)
          ELSE IF free_in_he = -1 THEN Throw(s1, Diverges)
          ELSE
            Let(s1.next[free_in_he], LAMBDA free_out_he :
              [s1 EXCEPT !.node_halfedge[n] = he,
                         !.next[free_in_he] = he,
                         !.prev[he] = free_in_he,
                         !.next[pair(he)] = free_out_he,
                         !.prev[free_out_he] = pair(he)])))

attach_halfedge_to_node(s, he, n) ==
  IF s.err # NoError THEN s
  ELSE
    Let([s EXCEPT !.origin[he] = n], LAMBDA s1 :
      IF is_isolated(s1, n)
      THEN [s1 EXCEPT !.node_halfedge[n] = he,
                      !.prev[he] = pair(he),
                      !.next[pair(he)] = he]
      ELSE
        Let(find_free_incident_halfedge_node(s1, n), LAMBDA free_in_he :
          IF free_in_he = Null THEN Throw(s1, bad_topology_error)
          ELSE IF free_in_he = -1 THEN Throw(s1, Diverges)
          ELSE
            Let(s1.next[free_in_he], LAMBDA free_out_he :
              [s1 EXCEPT !.next[free_in_he] = he,
                         !.prev[he] = free_in_he,
                         !.next[pair(he)] = free_out_he,
                         !.prev[free_out_he] = pair(he)])))

\* make_adjacent that gives up when the halfedges are not adjacent yet
make_adjacent_no_splice(s, in, out) ==
  IF s.err # NoError THEN s
  ELSE IF s.next[in] = out THEN s
  ELSE Throw(s, bad_topology_error)

\* make_adjacent that links in to out before it looks for the free
\* halfedge, so that the links are written although the search throws
make_adjacent_early_write(s, in, out) ==
  IF s.err # NoError THEN s
  ELSE IF s.next[in] = out THEN s
  ELSE
    LET b == s.next[in]
        d == s.prev[out]
    IN  Let(find_free_incident_halfedge(s, pair(out), in), LAMBDA g :
          IF g = Null
          THEN Throw([s EXCEPT !.next[in] = out, !.prev[out] = in], bad_topology_error)
          ELSE IF g = -1 THEN Throw(s, Diverges)
          ELSE
            Let(s.next[g], LAMBDA h :
              [s EXCEPT !.next[in] = out,
                        !.prev[out] = in,
                        !.next[g] = b,
                        !.prev[b] = g,
                        !.next[d] = h,
                        !.prev[h] = d]))

make_adjacent(s, in, out) ==
  IF s.err # NoError THEN s
  ELSE IF s.next[in] = out THEN s
  ELSE
    LET b == s.next[in]
        d == s.prev[out]
    IN  Let(find_free_incident_halfedge(s, pair(out), in), LAMBDA g :
          IF g = Null THEN Throw(s, bad_topology_error)
          ELSE IF g = -1 THEN Throw(s, Diverges)
          ELSE
            Let(s.next[g], LAMBDA h :
              [s EXCEPT !.next[in] = out,
                        !.prev[out] = in,
                        !.next[g] = b,
                        !.prev[b] = g,
                        !.next[d] = h,
                        !.prev[h] = d]))

\* detach_edge without its last statement (he.pair.next.prev is left alone)
detach_edge_no_prev(s, he) ==
  Let(IF s.node_halfedge[s.origin[he]] = he
      THEN IF s.next[pair(he)] # he
           THEN [s EXCEPT !.node_halfedge[s.origin[he]] = s.next[pair(he)]]
           ELSE [s EXCEPT !.node_halfedge[s.origin[he]] = Null]
      ELSE s, LAMBDA s1 :
    [s1 EXCEPT !.next[s1.prev[he]] = s1.next[pair(he)]])

\* detach_edge that never moves the halfedge handle of the origin node
detach_edge_keep_handle(s, he) ==
  Let([s EXCEPT !.next[s.prev[he]] = s.next[pair(he)]], LAMBDA s2 :
    [s2 EXCEPT !.prev[s2.next[pair(he)]] = s2.prev[he]])

\* detach_edge without the test for the last edge of the node: the handle
\* always moves on to he.pair.next
detach_edge_no_isolate(s, he) ==
  Let(IF s.node_halfedge[s.origin[he]] = he
      THEN [s EXCEPT !.node_halfedge[s.origin[he]] = s.next[pair(he)]]
      ELSE s, LAMBDA s1 :
    Let([s1 EXCEPT !.next[s1.prev[he]] = s1.next[pair(he)]], LAMBDA s2 :
      [s2 EXCEPT !.prev[s2.next[pair(he)]] = s2.prev[he]]))

detach_edge(s, he) ==
  Let(IF s.node_halfedge[s.origin[he]] = he
      THEN IF s.next[pair(he)] # he
           THEN [s EXCEPT !.node_halfedge[s.origin[he]] = s.next[pair(he)]]
           ELSE [s EXCEPT !.node_halfedge[s.origin[he]] = Null]
      ELSE s, LAMBDA s1 :
    Let([s1 EXCEPT !.next[s1.prev[he]] = s1.next[pair(he)]], LAMBDA s2 :
      [s2 EXCEPT !.prev[s2.next[pair(he)]] = s2.prev[he]]))

\* ---------------------------------------------------- triangulation facade

add_node(s, p) ==
  Let(get_new_node(s), LAMBDA r :
    [s |-> [r.s EXCEPT !.position[r.ret] = p], ret |-> r.ret])

add_edge(s, n1, n2) ==
  IF s.err # NoError THEN [s |-> s, ret |-> Null]
  ELSE
    Let(get_new_edge(s), LAMBDA r :
      Let(attach_halfedge_to_node(r.s, he1(r.ret), n1), LAMBDA s1 :
        Let(attach_halfedge_to_node(s1, he2(r.ret), n2), LAMBDA s2 :
          \* the catch block only adds a description and rethrows
          IF s2.err # NoError THEN [s |-> s2, ret |-> Null]
          ELSE [s |-> s2, ret |-> he1(r.ret)])))

\* remove_face that forgets the third halfedge of the face
remove_face_two(s, f) ==
  IF s.err # NoError THEN s
  ELSE
    Let([s EXCEPT !.face[s.face_halfedge[f]] = Null], LAMBDA s1 :
      Let([s1 EXCEPT !.face[s1.next[s1.face_halfedge[f]]] = Null], LAMBDA s2 :
        delete_face(s2, f)))

\* remove_face that never deletes the face
remove_face_keeps_face(s, f) ==
  IF s.err # NoError THEN s
  ELSE
    Let([s EXCEPT !.face[s.face_halfedge[f]] = Null], LAMBDA s1 :
      Let([s1 EXCEPT !.face[s1.next[s1.face_halfedge[f]]] = Null], LAMBDA s2 :
        [s2 EXCEPT !.face[s2.prev[s2.face_halfedge[f]]] = Null]))

remove_face(s, f) ==
  IF s.err # NoError THEN s
  ELSE
    Let([s EXCEPT !.face[s.face_halfedge[f]] = Null], LAMBDA s1 :
      Let([s1 EXCEPT !.face[s1.next[s1.face_halfedge[f]]] = Null], LAMBDA s2 :
        Let([s2 EXCEPT !.face[s2.prev[s2.face_halfedge[f]]] = Null], LAMBDA s3 :
          delete_face(s3, f))))

\* remove_edge that removes the face of he1 only
remove_edge_one_face(s, e) ==
  IF s.err # NoError THEN s
  ELSE
    Let(IF ~is_boundary(s, he1(e)) THEN remove_face(s, s.face[he1(e)]) ELSE s, LAMBDA s1 :
      Let(detach_edge(s1, he1(e)), LAMBDA s3 :
        Let(detach_edge(s3, he2(e)), LAMBDA s4 :
          delete_edge(s4, e))))

remove_edge(s, e) ==
  IF s.err # NoError THEN s
  ELSE
    Let(IF ~is_boundary(s, he1(e)) THEN remove_face(s, s.face[he1(e)]) ELSE s, LAMBDA s1 :
      Let(IF ~is_boundary(s1, he2(e)) THEN remove_face(s1, s1.face[he2(e)]) ELSE s1, LAMBDA s2 :
        Let(detach_edge(s2, he1(e)), LAMBDA s3 :
          Let(detach_edge(s3, he2(e)), LAMBDA s4 :
            delete_edge(s4, e)))))

\* The while loop of remove_node; nxt is the local `next`, calls counts the
\* remove_edge calls made so far.
RECURSIVE remove_node_loop(_, _, _, _, _)
remove_node_loop(s, n, nxt, calls, fuel) ==
  IF is_isolated(s, n) THEN [s |-> s, ret |-> calls]
  ELSE IF fuel = 0 \/ edge(nxt) \notin s.edges
       THEN [s |-> Throw(s, Diverges), ret |-> calls]
  ELSE Let(remove_edge(s, edge(nxt)), LAMBDA s1 :
         remove_node_loop(s1, n, s.next[pair(nxt)], calls + 1, fuel - 1))

remove_node(s, n) ==
  Let(remove_node_loop(s, n, s.node_halfedge[n], 0, MaxEdges + 1), LAMBDA r :
    IF r.s.err # NoError THEN r
    ELSE [s |-> delete_node(r.s, n), ret |-> r.ret])

\* add_face that tests the chain before it tests that the halfedges are free
add_face_chain_first(s, h1, h2, h3) ==
  IF s.err # NoError THEN [s |-> s, ret |-> Null]
  ELSE IF ~(/\ s.origin[pair(h1)] = s.origin[h2]
            /\ s.origin[pair(h2)] = s.origin[h3]
            /\ s.origin[pair(h3)] = s.origin[h1])
  THEN [s |-> Throw(s, add_face_error_not_chain), ret |-> Null]
  ELSE IF ~(is_boundary(s, h1) /\ is_boundary(s, h2) /\ is_boundary(s, h3))
  THEN [s |-> Throw(s, add_face_error_not_free), ret |-> Null]
  ELSE
    Let(make_adjacent(s, h1, h2), LAMBDA s1 :
      Let(make_adjacent(s1, h2, h3), LAMBDA s2 :
        Let(make_adjacent(s2, h3, h1), LAMBDA s3 :
          IF s3.err # NoError THEN [s |-> s3, ret |-> Null]
          ELSE
            Let(get_new_face(s3), LAMBDA r :
              [s |-> [r.s EXCEPT !.face_halfedge[r.ret] = h1,
                                 !.face[h1] = r.ret,
                                 !.face[h2] = r.ret,
                                 !.face[h3] = r.ret],
               ret |-> r.ret]))))

add_face(s, h1, h2, h3) ==
  IF s.err # NoError THEN [s |-> s, ret |-> Null]
  ELSE IF ~(is_boundary(s, h1) /\ is_boundary(s, h2) /\ is_boundary(s, h3))
  THEN [s |-> Throw(s, add_face_error_not_free), ret |-> Null]
  ELSE IF ~(/\ s.origin[pair(h1)] = s.origin[h2]
            /\ s.origin[pair(h2)] = s.origin[h3]
            /\ s.origin[pair(h3)] = s.origin[h1])
  THEN [s |-> Throw(s, add_face_error_not_chain), ret |-> Null]
  ELSE
    Let(make_adjacent(s, h1, h2), LAMBDA s1 :
      Let(make_adjacent(s1, h2, h3), LAMBDA s2 :
        Let(make_adjacent(s2, h3, h1), LAMBDA s3 :
          \* make_adjacent returns true or throws: the throw of line 152
          \* is never reached, bad_topology_error leaves add_face uncaught
          IF s3.err # NoError THEN [s |-> s3, ret |-> Null]
          ELSE
            Let(get_new_face(s3), LAMBDA r :
              [s |-> [r.s EXCEPT !.face_halfedge[r.ret] = h1,
                                 !.face[h1] = r.ret,
                                 !.face[h2] = r.ret,
                                 !.face[h3] = r.ret],
               ret |-> r.ret]))))

\* One `if ( is_there_f )` block of split_edge: the edge from n_new to the
\* opposite node n3 and the two faces on that side; ha, hb are the
\* halfedges of the two new edges that bound them.
split_edge_side(s, n_new, n3, ha, h5, h6, hb) ==
  Let(add_edge(s, n_new, n3), LAMBDA r3 :
    Let(add_face(r3.s, ha, h5, pair(r3.ret)), LAMBDA f1 :
      add_face(f1.s, r3.ret, h6, hb).s))

\* split_edge without its second `if ( is_there_f2 )` block
split_edge_one_side(s, e, p) ==
  LET h1 == he1(e)
      h2 == he2(e)
      n1 == s.origin[h1]
      n2 == s.origin[h2]
      is_there_f1 == ~is_boundary(s, h1)
      is_there_f2 == ~is_boundary(s, h2)
      h5 == s.next[h1]
      h6 == s.prev[h1]
      n3 == s.origin[h6]
      h7 == s.next[h2]
      h8 == s.prev[h2]
      n4 == s.origin[h8]
  IN  Let(remove_edge(s, e), LAMBDA s1 :
        Let(add_node(s1, p), LAMBDA rn :
          Let(add_edge(rn.s, rn.ret, n1), LAMBDA r1 :
            Let(add_edge(r1.s, rn.ret, n2), LAMBDA r2 :
              Let(IF is_there_f1
                  THEN split_edge_side(r2.s, rn.ret, n3, r2.ret, h5, h6, pair(r1.ret))
                  ELSE r2.s, LAMBDA sa :
                [s |-> sa, ret |-> IF sa.err = NoError THEN rn.ret ELSE Null])))))

split_edge(s, e, p) ==
  LET h1 == he1(e)
      h2 == he2(e)
      n1 == s.origin[h1]
      n2 == s.origin[h2]
      is_there_f1 == ~is_boundary(s, h1)
      is_there_f2 == ~is_boundary(s, h2)
      h5 == s.next[h1]
      h6 == s.prev[h1]
      n3 == s.origin[h6]
      h7 == s.next[h2]
      h8 == s.prev[h2]
      n4 == s.origin[h8]
  IN  Let(remove_edge(s, e), LAMBDA s1 :
        Let(add_node(s1, p), LAMBDA rn :
          Let(add_edge(rn.s, rn.ret, n1), LAMBDA r1 :
            Let(add_edge(r1.s, rn.ret, n2), LAMBDA r2 :
              Let(IF is_there_f1
                  THEN split_edge_side(r2.s, rn.ret, n3, r2.ret, h5, h6, pair(r1.ret))
                  ELSE r2.s, LAMBDA sa :
                Let(IF is_there_f2
                    THEN split_edge_side(sa, rn.ret, n4, r1.ret, h7, h8, pair(r2.ret))
                    ELSE sa, LAMBDA sb :
                  [s |-> sb, ret |-> IF sb.err = NoError THEN rn.ret ELSE Null]))))))

split_face(s, f, p) ==
  LET h1 == s.face_halfedge[f]
      h2 == s.next[h1]
      h3 == s.prev[h1]
  IN  Let(remove_face(s, f), LAMBDA s1 :
        Let(add_node(s1, p), LAMBDA rn :
          Let(add_edge(rn.s, rn.ret, rn.s.origin[h1]), LAMBDA r4 :
            Let(add_edge(r4.s, rn.ret, r4.s.origin[h2]), LAMBDA r5 :
              Let(add_edge(r5.s, rn.ret, r5.s.origin[h3]), LAMBDA r6 :
                Let(add_face(r6.s, r4.ret, h1, pair(r5.ret)), LAMBDA f1 :
                  Let(add_face(f1.s, r5.ret, h2, pair(r6.ret)), LAMBDA f2 :
                    Let(add_face(f2.s, r6.ret, h3, pair(r4.ret)), LAMBDA f3 :
                      [s |-> f3.s,
                       ret |-> IF f3.s.err = NoError THEN rn.ret ELSE Null]))))))))

\* The scan of boundary_halfedge; the store enumerates its edges in the
\* order of their handles.
boundary_halfedge(s) ==
  LET B == {e \in s.edges : is_boundary(s, he1(e)) \/ is_boundary(s, he2(e))}
  IN  IF B = {} THEN Null
      ELSE IF is_boundary(s, he1(MinOf(B))) THEN he1(MinOf(B))
      ELSE he2(MinOf(B))

\* ---------------------------------------------------------- point location
\* Points are pairs of integers <<x, y>>, on which the kernel's predicate is
\* exact: the side of p with respect to the directed line from p1 to p2.
oriented_side(p1, p2, p) ==
  LET d == (p2[1] - p1[1]) * (p[2] - p1[2]) - (p2[2] - p1[2]) * (p[1] - p1[1])
  IN  IF d > 0 THEN ON_POSITIVE_SIDE
      ELSE IF d < 0 THEN ON_NEGATIVE_SIDE
      ELSE ON_ORIENTED_BOUNDARY

min(a, b) == IF b < a THEN b ELSE a
max(a, b) == IF a < b THEN b ELSE a

\* what locate hands back: loc, the returned face and the two out
\* parameters (null when locate does not assign them)
Located(loc, f, n, e) == [loc |-> loc, face |-> f, on_node |-> n, on_edge |-> e]

\* one pass of the `while ( true )` body of locate that tests only the
\* x interval in the ON_ORIENTED_BOUNDARY case
locate_step_x_only(s, p, he_start, he_iter) ==
  LET p1 == s.position[s.origin[he_iter]]
      p2 == s.position[s.origin[pair(he_iter)]]
      os == oriented_side(p1, p2, p)
  IN  IF os = ON_POSITIVE_SIDE
      THEN IF s.next[he_iter] = he_start
           THEN [done |-> TRUE, he_start |-> he_start, he_iter |-> s.next[he_iter],
                 out |-> Located(IN_FACE, s.face[s.next[he_iter]], Null, Null)]
           ELSE [done |-> FALSE, he_start |-> he_start, he_iter |-> s.next[he_iter],
                 out |-> Null]
      ELSE IF os = ON_ORIENTED_BOUNDARY
              /\ min(p1[1], p2[1]) < p[1] /\ p[1] < max(p1[1], p2[1])
      THEN [done |-> TRUE, he_start |-> he_start, he_iter |-> he_iter,
            out |-> Located(ON_EDGE, Null, Null, edge(he_iter))]
      ELSE IF os = ON_ORIENTED_BOUNDARY /\ p = p1
      THEN [done |-> TRUE, he_start |-> he_start, he_iter |-> he_iter,
            out |-> Located(ON_NODE, Null, s.origin[he_iter], Null)]
      ELSE IF os = ON_ORIENTED_BOUNDARY /\ p = p2
      THEN [done |-> TRUE, he_start |-> he_start, he_iter |-> he_iter,
            out |-> Located(ON_NODE, Null, s.origin[pair(he_iter)], Null)]
      ELSE IF is_boundary(s, pair(he_iter))
      THEN [done |-> TRUE, he_start |-> he_start, he_iter |-> he_iter,
            out |-> Located(OUTSIDE_MESH, Null, Null, edge(he_iter))]
      ELSE [done |-> FALSE, he_start |-> pair(he_iter),
            he_iter |-> s.next[pair(he_iter)], out |-> Null]

\* one pass of the body that takes the ON_POSITIVE_SIDE case also when p is
\* on the line of the halfedge
locate_step_on_line_inside(s, p, he_start, he_iter) ==
  LET p1 == s.position[s.origin[he_iter]]
      p2 == s.position[s.origin[pair(he_iter)]]
      os == oriented_side(p1, p2, p)
  IN  IF os # ON_NEGATIVE_SIDE
      THEN IF s.next[he_iter] = he_start
           THEN [done |-> TRUE, he_start |-> he_start, he_iter |-> s.next[he_iter],
                 out |-> Located(IN_FACE, s.face[s.next[he_iter]], Null, Null)]
           ELSE [done |-> FALSE, he_start |-> he_start, he_iter |-> s.next[he_iter],
                 out |-> Null]
      ELSE IF is_boundary(s, pair(he_iter))
      THEN [done |-> TRUE, he_start |-> he_start, he_iter |-> he_iter,
            out |-> Located(OUTSIDE_MESH, Null, Null, edge(he_iter))]
      ELSE [done |-> FALSE, he_start |-> pair(he_iter),
            he_iter |-> s.next[pair(he_iter)], out |-> Null]

\* One pass of the `while ( true )` body of locate: the oriented side of p
\* for he_iter and the switch on it.  done tells that the pass returned, out
\* is then what it returned; otherwise he_start and he_iter are the locals
\* the next pass starts with.  The ON_ORIENTED_BOUNDARY case has no break:
\* when none of its three tests holds, control falls into the
\* ON_NEGATIVE_SIDE case.
locate_step(s, p, he_start, he_iter) ==
  LET p1 == s.position[s.origin[he_iter]]
      p2 == s.position[s.origin[pair(he_iter)]]
      os == oriented_side(p1, p2, p)
  IN  IF os = ON_POSITIVE_SIDE
      THEN IF s.next[he_iter] = he_start
           THEN [done |-> TRUE, he_start |-> he_start, he_iter |-> s.next[he_iter],
                 out |-> Located(IN_FACE, s.face[s.next[he_iter]], Null, Null)]
           ELSE [done |-> FALSE, he_start |-> he_start, he_iter |-> s.next[he_iter],
                 out |-> Null]
      ELSE IF os = ON_ORIENTED_BOUNDARY
              /\ \/ min(p1[1], p2[1]) < p[1] /\ p[1] < max(p1[1], p2[1])
                 \/ min(p1[2], p2[2]) < p[2] /\ p[2] < max(p1[2], p2[2])
      THEN [done |-> TRUE, he_start |-> he_start, he_iter |-> he_iter,
            out |-> Located(ON_EDGE, Null, Null, edge(he_iter))]
      ELSE IF os = ON_ORIENTED_BOUNDARY /\ p = p1
      THEN [done |-> TRUE, he_start |-> he_start, he_iter |-> he_iter,
            out |-> Located(ON_NODE, Null, s.origin[he_iter], Null)]
      ELSE IF os = ON_ORIENTED_BOUNDARY /\ p = p2
      THEN [done |-> TRUE, he_start |-> he_start, he_iter |-> he_iter,
            out |-> Located(ON_NODE, Null, s.origin[pair(he_iter)], Null)]
      ELSE IF is_boundary(s, pair(he_iter))
      THEN [done |-> TRUE, he_start |-> he_start, he_iter |-> he_iter,
            out |-> Located(OUTSIDE_MESH, Null, Null, edge(he_iter))]
      ELSE [done |-> FALSE, he_start |-> pair(he_iter),
            he_iter |-> s.next[pair(he_iter)], out |-> Null]

\* The `while ( true )` loop of locate.  seen holds the pairs
\* <<he_start, he_iter>> the loop began a pass with: the store and p do not
\* change, so a pass that begins with a pair of seen repeats the passes since
\* then forever, and the loop never returns (loc is Diverges).  tested lists
\* the halfedges the passes tested, fell the ones crossed by the fall
\* through from the ON_ORIENTED_BOUNDARY case.
RECURSIVE locate_loop(_, _, _, _, _, _, _)
locate_loop(s, p, he_start, he_iter, seen, tested, fell) ==
  IF <<he_start, he_iter>> \in seen
  THEN [loc |-> Diverges, face |-> Null, on_node |-> Null, on_edge |-> Null,
        tested |-> tested, fell |-> fell]
  ELSE
    Let(locate_step(s, p, he_start, he_iter), LAMBDA r :
      IF r.done
      THEN [loc |-> r.out.loc, face |-> r.out.face, on_node |-> r.out.on_node,
            on_edge |-> r.out.on_edge,
            tested |-> Append(tested, he_iter), fell |-> fell]
      ELSE locate_loop(s, p, r.he_start, r.he_iter,
                       seen \cup {<<he_start, he_iter>>},
                       Append(tested, he_iter),
                       IF r.he_start # he_start
                          /\ oriented_side(s.position[s.origin[he_iter]],
                                           s.position[s.origin[pair(he_iter)]],
                                           p) = ON_ORIENTED_BOUNDARY
                       THEN fell \cup {he_iter} ELSE fell))

\* locate(p, loc, on_node, on_edge, start_face); without a start face the
\* walk starts at the first face of the store
locate(s, p, start_face) ==
  LET he_start == IF start_face = Null
                  THEN s.face_halfedge[MinOf(s.faces)]
                  ELSE s.face_halfedge[start_face]
  IN  locate_loop(s, p, he_start, he_start, {}, <<>>, {})

\* ------------------------------------------------- meshes a client builds
\* Each mesh is the result of a fixed sequence of public operations on the
\* empty triangulation; n1, n2, ... are the handles add_node returns.

\* two nodes joined by one edge
Segment ==
  Let(add_node(EmptyStore, Origin2), LAMBDA a :
    Let(add_node(a.s, Origin2), LAMBDA b :
      add_edge(b.s, a.ret, b.ret).s))

\* three nodes joined in a cycle; halfedges 1, 3, 5 run n1 -> n2 -> n3 -> n1
TriangleEdges ==
  Let(add_node(EmptyStore, Origin2), LAMBDA a :
    Let(add_node(a.s, Origin2), LAMBDA b :
      Let(add_node(b.s, Origin2), LAMBDA c :
        Let(add_edge(c.s, a.ret, b.ret), LAMBDA e1 :
          Let(add_edge(e1.s, b.ret, c.ret), LAMBDA e2 :
            add_edge(e2.s, c.ret, a.ret).s)))))

\* scenario S1: a single triangle
Triangle == add_face(TriangleEdges, 1, 3, 5).s

\* scenario S2: the triangle split at an interior point
SplitTriangle == split_face(Triangle, 1, Origin2).s

\* S1 plus a dangling edge at its first node
TrianglePendant ==
  Let(add_node(Triangle, Origin2), LAMBDA d :
    add_edge(d.s, 1, d.ret).s)

\* a node with three dangling edges
Star ==
  Let(add_node(Segment, Origin2), LAMBDA c :
    Let(add_node(c.s, Origin2), LAMBDA d :
      Let(add_edge(d.s, 1, c.ret), LAMBDA e2 :
        add_edge(e2.s, 1, d.ret).s)))

\* a square n1 n2 n3 n4 with its four sides and the diagonal n1 - n3
SquareEdges ==
  Let(add_node(EmptyStore, Origin2), LAMBDA a :
    Let(add_node(a.s, Origin2), LAMBDA b :
      Let(add_node(b.s, Origin2), LAMBDA c :
        Let(add_node(c.s, Origin2), LAMBDA d :
          Let(add_edge(d.s, a.ret, b.ret), LAMBDA e1 :
            Let(add_edge(e1.s, b.ret, c.ret), LAMBDA e2 :
              Let(add_edge(e2.s, c.ret, d.ret), LAMBDA e3 :
                Let(add_edge(e3.s, d.ret, a.ret), LAMBDA e4 :
                  add_edge(e4.s, a.ret, c.ret).s))))))))

\* scenario S3: the square cut by its diagonal (edge 5) into two triangles
Square ==
  Let(add_face(SquareEdges, 1, 3, 10), LAMBDA f1 :
    add_face(f1.s, 9, 5, 7).s)

\* two triangles that share only node 1
Bowtie ==
  Let(add_node(Triangle, Origin2), LAMBDA d :
    Let(add_node(d.s, Origin2), LAMBDA e :
      Let(add_edge(e.s, 1, d.ret), LAMBDA e4 :
        Let(add_edge(e4.s, d.ret, e.ret), LAMBDA e5 :
          Let(add_edge(e5.s, e.ret, 1), LAMBDA e6 :
            add_face(e6.s, e4.ret, e5.ret, e6.ret).s)))))

\* S3 with a dangling edge at n4, the edge n2 - n4 drawn outside the square
\* and a dangling edge at n3: halfedges 13 (n2 -> n4), 6 (n4 -> n3) and
\* 4 (n3 -> n2) are free and chain, 13 and 6 are separated by the dangling
\* edge at n4, 6 and 4 by the dangling edge at n3
SquareChord ==
  Let(add_node(Square, Origin2), LAMBDA a :
    Let(add_node(a.s, Origin2), LAMBDA b :
      Let(add_edge(b.s, 4, a.ret), LAMBDA e6 :
        Let(add_edge(e6.s, 2, 4), LAMBDA e7 :
          add_edge(e7.s, 3, b.ret).s))))

\* the halfedge from node u to node v
halfedge_between(s, u, v) ==
  CHOOSE h \in LiveHalfedges(s) : s.origin[h] = u /\ s.origin[pair(h)] = v

\* A client that builds a mesh with the public operations from a list of
\* calls: <<"node", p>>, <<"edge", n1, n2>> and <<"face", n1, n2, n3>>, the
\* last one add_face on the halfedges n1 -> n2, n2 -> n3, n3 -> n1.
RECURSIVE build_mesh(_, _)
build_mesh(s, calls) ==
  IF calls = <<>> THEN s
  ELSE
    Let(Head(calls), LAMBDA c :
      Let(IF c[1] = "node" THEN add_node(s, c[2]).s
          ELSE IF c[1] = "edge" THEN add_edge(s, c[2], c[3]).s
          ELSE add_face(s, halfedge_between(s, c[2], c[3]),
                           halfedge_between(s, c[3], c[4]),
                           halfedge_between(s, c[4], c[2])).s, LAMBDA t :
        build_mesh(t, Tail(calls))))

\* scenario S1 with its coordinates, scaled by 4
GeoTriangle ==
  build_mesh(EmptyStore,
    << <<"node", <<0, 0>>>>, <<"node", <<4, 0>>>>, <<"node", <<0, 4>>>>,
       <<"edge", 1, 2>>, <<"edge", 2, 3>>, <<"edge", 3, 1>>,
       <<"face", 1, 2, 3>> >>)

\* scenario S3 with its coordinates, scaled by 4
GeoSquare ==
  build_mesh(EmptyStore,
    << <<"node", <<0, 0>>>>, <<"node", <<4, 0>>>>, <<"node", <<4, 4>>>>,
       <<"node", <<0, 4>>>>,
       <<"edge", 1, 2>>, <<"edge", 2, 3>>, <<"edge", 3, 1>>,
       <<"face", 1, 2, 3>>,
       <<"edge", 3, 4>>, <<"edge", 4, 1>>,
       <<"face", 1, 3, 4>> >>)

\* the triangle (0,0) (4,0) (2,4) cut from its apex to the midpoint (2,0) of
\* its base: the base consists of two collinear boundary edges
GeoSplitBase ==
  build_mesh(EmptyStore,
    << <<"node", <<0, 0>>>>, <<"node", <<2, 0>>>>, <<"node", <<4, 0>>>>,
       <<"node", <<2, 4>>>>,
       <<"edge", 1, 2>>, <<"edge", 2, 4>>, <<"edge", 4, 1>>,
       <<"face", 1, 2, 4>>,
       <<"edge", 2, 3>>, <<"edge", 3, 4>>,
       <<"face", 2, 3, 4>> >>)

\* A triangulation of the triangle A B C = (0,0) (8,0) (4,8) that is not
\* Delaunay: the inner triangle a b c = (1,1) (5,1) (4,5) and, around it, the
\* six triangles A B a, B b a, B C b, C c b, C A c, A a c.
GeoPinwheel ==
  build_mesh(EmptyStore,
    << <<"node", <<0, 0>>>>, <<"node", <<8, 0>>>>, <<"node", <<4, 8>>>>,
       <<"node", <<1, 1>>>>, <<"node", <<5, 1>>>>, <<"node", <<4, 5>>>>,
       <<"edge", 4, 5>>, <<"edge", 5, 6>>, <<"edge", 6, 4>>,
       <<"face", 4, 5, 6>>,
       <<"edge", 1, 2>>, <<"edge", 2, 4>>, <<"edge", 4, 1>>,
       <<"face", 1, 2, 4>>,
       <<"edge", 2, 5>>,
       <<"face", 2, 5, 4>>,
       <<"edge", 2, 3>>, <<"edge", 3, 5>>,
       <<"face", 2, 3, 5>>,
       <<"edge", 3, 6>>,
       <<"face", 3, 6, 5>>,
       <<"edge", 3, 1>>, <<"edge", 1, 6>>,
       <<"face", 3, 1, 6>>,
       <<"face", 1, 4, 6>> >>)

GeoMeshes == {GeoTriangle, GeoSquare, GeoSplitBase, GeoPinwheel}

\* the points a client asks locate for
QueryPoints == (0..MaxCoord) \X (0..MaxCoord)

\* two isolated nodes
TwoNodes ==
  Let(add_node(EmptyStore, Origin2), LAMBDA a :
    add_node(a.s, Origin2).s)

Meshes ==
  {TwoNodes, Segment, Triangle, SplitTriangle, TrianglePendant, Star, Square,
   Bowtie, SquareChord}

\* ------------------------------------------------------------------ state
VARIABLES nodes, position, node_halfedge, edges, origin, next, prev, face,
          faces, face_halfedge, err, last, ops

vars == <<nodes, position, node_halfedge, edges, origin, next, prev, face,
          faces, face_halfedge, err, last, ops>>

\* the triangulation object as a store value
Store ==
  [ nodes |-> nodes, position |-> position, node_halfedge |-> node_halfedge,
    edges |-> edges, origin |-> origin, next |-> next, prev |-> prev,
    face |-> face, faces |-> faces, face_halfedge |-> face_halfedge,
    err |-> err ]

Commit(s) ==
  /\ nodes' = s.nodes
  /\ position' = s.position
  /\ node_halfedge' = s.node_halfedge
  /\ edges' = s.edges
  /\ origin' = s.origin
  /\ next' = s.next
  /\ prev' = s.prev
  /\ face' = s.face
  /\ faces' = s.faces
  /\ face_halfedge' = s.face_halfedge
  /\ err' = s.err

\* the state after construction: an empty triangulation
Init ==
  /\ nodes = EmptyStore.nodes
  /\ position = EmptyStore.position
  /\ node_halfedge = EmptyStore.node_halfedge
  /\ edges = EmptyStore.edges
  /\ origin = EmptyStore.origin
  /\ next = EmptyStore.next
  /\ prev = EmptyStore.prev
  /\ face = EmptyStore.face
  /\ faces = EmptyStore.faces
  /\ face_halfedge = EmptyStore.face_halfedge
  /\ err = NoError
  /\ last = [op |-> "init", ret |-> Null]
  /\ ops = 0

\* the three halfedges are boundary / form a closed chain
AllFree(s, h1, h2, h3) == is_boundary(s, h1) /\ is_boundary(s, h2) /\ is_boundary(s, h3)
IsChain(s, h1, h2, h3) ==
  /\ s.origin[pair(h1)] = s.origin[h2]
  /\ s.origin[pair(h2)] = s.origin[h3]
  /\ s.origin[pair(h3)] = s.origin[h1]

\* number of faces incident to edge e
IncidentFaces(s, e) ==
  (IF is_boundary(s, he1(e)) THEN 0 ELSE 1) + (IF is_boundary(s, he2(e)) THEN 0 ELSE 1)

\* The client calls one public operation at a time on live handles and does
\* not go on after an exception left the operation.
AddNode ==
  /\ err = NoError /\ ops < MaxOps /\ ops' = ops + 1
  /\ Cardinality(nodes) < MaxNodes
  /\ \E p \in Points :
       \E r \in {add_node(Store, p)} :
         Commit(r.s) /\ last' = [op |-> "add_node", ret |-> r.ret]

RemoveNode ==
  /\ err = NoError /\ ops < MaxOps /\ ops' = ops + 1
  /\ \E n \in nodes :
       \E r \in {remove_node(Store, n)} :
         Commit(r.s) /\ last' = [op |-> "remove_node", ret |-> r.ret]

AddEdge ==
  /\ err = NoError /\ ops < MaxOps /\ ops' = ops + 1
  /\ Cardinality(edges) < MaxEdges
  /\ \E n1 \in nodes, n2 \in nodes :
       /\ n1 # n2
       /\ \E r \in {add_edge(Store, n1, n2)} :
            Commit(r.s) /\ last' = [op |-> "add_edge", ret |-> r.ret]

RemoveEdge ==
  /\ err = NoError /\ ops < MaxOps /\ ops' = ops + 1
  /\ \E e \in edges :
       /\ \E t \in {remove_edge(Store, e)} : Commit(t)
       /\ last' = [op |-> "remove_edge", ret |-> Null]

FreeHalfedges(s) == {h \in LiveHalfedges(s) : is_boundary(s, h)}

AddFaceCall(h1, h2, h3) ==
  \E r \in {add_face(Store, h1, h2, h3)} :
    Commit(r.s) /\ last' = [op |-> "add_face", ret |-> r.ret]

\* add_face is called with every triple of free halfedges that chain, and
\* once with a halfedge that has a face and once with free halfedges that
\* do not chain (such calls change nothing but err, whatever the triple).
AddFace ==
  /\ err = NoError /\ ops < MaxOps /\ ops' = ops + 1
  /\ Cardinality(faces) < MaxFaces
  /\ \/ \E h1 \in FreeHalfedges(Store) :
          \E h2 \in {h \in FreeHalfedges(Store) : origin[h] = origin[pair(h1)]} :
            \E h3 \in {h \in FreeHalfedges(Store) :
                          /\ origin[h] = origin[pair(h2)]
                          /\ origin[pair(h)] = origin[h1]} :
              AddFaceCall(h1, h2, h3)
     \/ \E h \in LiveHalfedges(Store) \ FreeHalfedges(Store) :
          /\ \A k \in LiveHalfedges(Store) \ FreeHalfedges(Store) : h <= k
          /\ AddFaceCall(h, h, h)
     \/ \E h \in FreeHalfedges(Store) :
          /\ \A k \in FreeHalfedges(Store) : h <= k
          /\ AddFaceCall(h, h, h)

RemoveFace ==
  /\ err = NoError /\ ops < MaxOps /\ ops' = ops + 1
  /\ \E f \in faces :
       /\ \E t \in {remove_face(Store, f)} : Commit(t)
       /\ last' = [op |-> "remove_face", ret |-> Null]

SplitEdge ==
  /\ err = NoError /\ ops < MaxOps /\ ops' = ops + 1
  /\ Cardinality(nodes) < MaxNodes
  /\ \E e \in edges, p \in Points :
       /\ Cardinality(edges) + 1 + IncidentFaces(Store, e) <= MaxEdges
       /\ Cardinality(faces) + IncidentFaces(Store, e) <= MaxFaces
       /\ \E r \in {split_edge(Store, e, p)} :
            Commit(r.s) /\ last' = [op |-> "split_edge", ret |-> r.ret]

SplitFace ==
  /\ err = NoError /\ ops < MaxOps /\ ops' = ops + 1
  /\ Cardinality(nodes) < MaxNodes
  /\ Cardinality(edges) + 3 <= MaxEdges
  /\ Cardinality(faces) + 2 <= MaxFaces
  /\ \E f \in faces, p \in Points :
       \E r \in {split_face(Store, f, p)} :
         Commit(r.s) /\ last' = [op |-> "split_face", ret |-> r.ret]

\* the client builds one of the meshes on the empty triangulation
Build ==
  /\ ops = 0 /\ last.op = "init"
  /\ \E m \in Meshes : Commit(m)
  /\ last' = [op |-> "build", ret |-> Null]
  /\ ops' = 0

Next ==
  \/ Build
  \/ AddNode
  \/ RemoveNode
  \/ AddEdge
  \/ RemoveEdge
  \/ AddFace
  \/ RemoveFace
  \/ SplitEdge
  \/ SplitFace

Spec == Init /\ [][Next]_vars

\* ----------------------------------------------- refinement of scenario S1
\* A client that starts from the single triangle and only refines it with
\* split_edge and split_face, for as long as the store has room.
RefineEdge ==
  /\ err = NoError /\ ops' = ops + 1
  /\ Cardinality(nodes) < MaxNodes
  /\ \E e \in edges, p \in Points :
       /\ Cardinality(edges) + 1 + IncidentFaces(Store, e) <= MaxEdges
       /\ Cardinality(faces) + IncidentFaces(Store, e) <= MaxFaces
       /\ \E r \in {split_edge(Store, e, p)} :
            Commit(r.s) /\ last' = [op |-> "split_edge", ret |-> r.ret]

RefineFace ==
  /\ err = NoError /\ ops' = ops + 1
  /\ Cardinality(nodes) < MaxNodes
  /\ Cardinality(edges) + 3 <= MaxEdges
  /\ Cardinality(faces) + 2 <= MaxFaces
  /\ \E f \in faces, p \in Points :
       \E r \in {split_face(Store, f, p)} :
         Commit(r.s) /\ last' = [op |-> "split_face", ret |-> r.ret]

RefineInit ==
  /\ nodes = Triangle.nodes
  /\ position = Triangle.position
  /\ node_halfedge = Triangle.node_halfedge
  /\ edges = Triangle.edges
  /\ origin = Triangle.origin
  /\ next = Triangle.next
  /\ prev = Triangle.prev
  /\ face = Triangle.face
  /\ faces = Triangle.faces
  /\ face_halfedge = Triangle.face_halfedge
  /\ err = Triangle.err
  /\ last = [op |-> "build", ret |-> Null]
  /\ ops = 0

RefineNext == RefineEdge \/ RefineFace

RefineSpec == RefineInit /\ [][RefineNext]_vars

\* ------------------------------------------------- point location queries
\* A client that builds a mesh with coordinates and asks locate for a point,
\* from every face and without a start face.  locate changes nothing in the
\* store; last keeps the arguments of the call and what it handed back.
LocateInit ==
  /\ \E m \in GeoMeshes :
       /\ nodes = m.nodes
       /\ position = m.position
       /\ node_halfedge = m.node_halfedge
       /\ edges = m.edges
       /\ origin = m.origin
       /\ next = m.next
       /\ prev = m.prev
       /\ face = m.face
       /\ faces = m.faces
       /\ face_halfedge = m.face_halfedge
       /\ err = m.err
  /\ last = [op |-> "build", ret |-> Null]
  /\ ops = 0

Locate ==
  /\ err = NoError /\ last.op = "build" /\ faces # {}
  /\ \E p \in QueryPoints, start_face \in faces \cup {Null} :
       \E r \in {locate(Store, p, start_face)} :
         last' = [op |-> "locate", ret |-> r, p |-> p, start_face |-> start_face]
  /\ ops' = ops + 1
  /\ UNCHANGED <<nodes, position, node_halfedge, edges, origin, next, prev,
                 face, faces, face_halfedge, err>>

LocateNext == Locate

LocateSpec == LocateInit /\ [][LocateNext]_vars

\* ------------------------------------------------------------- properties

\* the halfedges leaving node n / arriving at node n
Outgoing(s, n) == {h \in LiveHalfedges(s) : s.origin[h] = n}
Incoming(s, n) == {h \in LiveHalfedges(s) : s.origin[pair(h)] = n}

\* The rotation he -> he.pair.next started at start: the halfedges visited
\* up to the return to start, or <<Null>> when the rotation does not return.
RECURSIVE Rotation(_, _, _, _, _)
Rotation(s, start, h, acc, fuel) ==
  LET nx == s.next[pair(h)]
  IN  IF nx = start THEN Append(acc, h)
      ELSE IF fuel = 0 THEN <<Null>>
      ELSE Rotation(s, start, nx, Append(acc, h), fuel - 1)

Fan(s, n) == Rotation(s, s.node_halfedge[n], s.node_halfedge[n], <<>>, 2 * MaxEdges)

Range(q) == {q[i] : i \in 1..Len(q)}

\* every pointer of a live entity is null or a live entity
NoDangling(s) ==
  /\ \A h \in LiveHalfedges(s) :
       /\ s.next[h] \in LiveHalfedges(s) /\ s.prev[h] \in LiveHalfedges(s)
       /\ s.origin[h] \in s.nodes
       /\ s.face[h] \in s.faces \cup {Null}
  /\ \A n \in s.nodes : s.node_halfedge[n] \in LiveHalfedges(s) \cup {Null}
  /\ \A f \in s.faces : s.face_halfedge[f] \in LiveHalfedges(s)
  /\ s.next[Null] = Null /\ s.prev[Null] = Null /\ s.origin[Null] = Null
  /\ s.face[Null] = Null /\ s.node_halfedge[Null] = Null
  /\ s.face_halfedge[Null] = Null

HalfedgeInvariants(s) ==
  \A h \in LiveHalfedges(s) :
    /\ pair(pair(h)) = h
    /\ pair(h) # h
    /\ pair(h) \in LiveHalfedges(s)
    /\ s.prev[s.next[h]] = h
    /\ s.next[s.prev[h]] = h
    /\ s.origin[s.next[h]] = s.origin[pair(h)]

FaceInvariants(s) ==
  \A h \in LiveHalfedges(s) :
    s.face[h] # Null =>
      /\ s.next[s.next[s.next[h]]] = h
      /\ s.face[s.next[h]] = s.face[h]
      /\ s.face[s.next[s.next[h]]] = s.face[h]
      /\ s.face[h] \in s.faces
      /\ s.face_halfedge[s.face[h]] \in {h, s.next[h], s.next[s.next[h]]}

SingleFan(s, n) ==
  IF is_isolated(s, n)
  THEN Outgoing(s, n) = {}
  ELSE /\ s.node_halfedge[n] \in LiveHalfedges(s)
       /\ s.origin[s.node_halfedge[n]] = n
       /\ Range(Fan(s, n)) = Outgoing(s, n)
       /\ Len(Fan(s, n)) = Cardinality(Outgoing(s, n))

NodeInvariants(s) == \A n \in s.nodes : SingleFan(s, n)

\* no loop of the code ran forever and no null handle was written through
Sane == err # Diverges /\ (err = NoError => NoDangling(Store))

\* C1: after any sequence of successful public mutations every halfedge h
\* has h.pair.pair = h, h.pair # h, h.next.prev = h, h.prev.next = h and
\* h.next.origin = h.pair.origin.
C1_HalfedgeInvariants == err = NoError => HalfedgeInvariants(Store)

\* C1 witness: a successful remove_edge left edges and faces in the store
C1_Witness ==
  /\ err = NoError /\ last.op = "remove_edge"
  /\ edges # {} /\ faces # {}

\* the halfedges whose face is f
FaceCycle(s, f) == {h \in LiveHalfedges(s) : s.face[h] = f}

\* C2: after successful public mutations every halfedge h with a face has
\* h.next.next.next = h, the three halfedges share that face and the face's
\* halfedge handle is one of them; and an add_edge, add_face, remove_edge or
\* remove_face call leaves the halfedge handle, the next pointers and the
\* face pointers of every face that exists before and after it unchanged.
C2_FaceCycles ==
  /\ [](err = NoError => FaceInvariants(Store))
  /\ [][ last'.op \in {"add_edge", "add_face", "remove_edge", "remove_face"} =>
           \A f \in faces \cap faces' :
             /\ face_halfedge'[f] = face_halfedge[f]
             /\ \A h \in FaceCycle(Store, f) : next'[h] = next[h] /\ face'[h] = f ]_vars

\* C2 witness: add_face succeeded on a mesh that already had a face
C2_Witness ==
  /\ err = NoError /\ last.op = "add_face" /\ ops >= 1
  /\ Cardinality(faces) >= 2

\* C3: after successful public mutations every node n is isolated and no
\* halfedge has origin n, or n.halfedge.origin = n and the rotation
\* he -> he.pair.next from n.halfedge visits every halfedge with origin n
\* exactly once before it is back at n.halfedge.
C3_SingleFan == err = NoError => NodeInvariants(Store)

\* C3 witness: after a successful mutation the store holds an isolated node
\* and a node with at least three outgoing halfedges
C3_Witness ==
  /\ err = NoError /\ ops >= 1
  /\ \E n \in nodes : is_isolated(Store, n)
  /\ \E n \in nodes : Cardinality(Outgoing(Store, n)) >= 3

\* C4: when add_face is given three boundary halfedges that chain and a
\* make_adjacent step finds no free halfedge, the error add_face reports is
\* the add_face error "non-manifold" and not a topology error.
C4_NonManifoldIsFaceError ==
  (last.op = "add_face" /\ err \notin {NoError, add_face_error_not_free,
                                       add_face_error_not_chain})
    => err = add_face_error_non_manifold

\* every halfedge of every stored edge has an origin
OriginsSet(s) == \A h \in LiveHalfedges(s) : s.origin[h] # Null

\* C5: after add_edge failed with a topology error the store is consistent:
\* both halfedges of every stored edge have an origin, every halfedge with
\* origin n lies on the single fan of n, and the pair/next/prev/origin
\* invariants hold for every stored halfedge.
C5_ConsistentAfterFailedAddEdge ==
  (last.op = "add_edge" /\ err = bad_topology_error) =>
    /\ OriginsSet(Store)
    /\ NodeInvariants(Store)
    /\ HalfedgeInvariants(Store)

\* node n has incident edges and none of its incoming halfedges is boundary
IsFull(s, n) ==
  /\ ~is_isolated(s, n)
  /\ \A h \in Incoming(s, n) : ~is_boundary(s, h)

\* C6: in a state reached by successful mutations, add_edge(n1, n2) with
\* n1 # n2 fails with a topology error exactly when n1 or n2 is full;
\* otherwise it succeeds, adds exactly one edge and returns a halfedge h
\* with h.origin = n1 and h.pair.origin = n2.
C6_AddEdgeOutcome ==
  (err = NoError /\ Cardinality(edges) < MaxEdges) =>
    \A n1 \in nodes, n2 \in nodes :
      n1 # n2 =>
        LET r == add_edge(Store, n1, n2)
        IN  /\ r.s.err \in {NoError, bad_topology_error}
            /\ r.s.err = bad_topology_error <=> (IsFull(Store, n1) \/ IsFull(Store, n2))
            /\ r.s.err = NoError =>
                 /\ edges \subseteq r.s.edges
                 /\ Cardinality(r.s.edges) = Cardinality(edges) + 1
                 /\ edge(r.ret) \in r.s.edges \ edges
                 /\ r.s.origin[r.ret] = n1
                 /\ r.s.origin[pair(r.ret)] = n2

\* C6 witness: add_edge was called with a full endpoint and failed
C6_Witness == last.op = "add_edge" /\ err = bad_topology_error

\* C7: in every state in which a client calls it, add_face with a violated
\* precondition fails before any mutation: with
\* a halfedge that has a face it fails with the not-free error, otherwise
\* with halfedges that do not chain it fails with the not-chain error; no
\* face is created and no pointer or handle of the store changes.
C7_AddFacePreconditions ==
  (err = NoError /\ ops < MaxOps) =>
    LET L == LiveHalfedges(Store)
        not_free == [s |-> Throw(Store, add_face_error_not_free), ret |-> Null]
        not_chain == [s |-> Throw(Store, add_face_error_not_chain), ret |-> Null]
    IN  \A h1 \in L, h2 \in L, h3 \in L :
          IF ~AllFree(Store, h1, h2, h3)
          THEN add_face(Store, h1, h2, h3) = not_free
          ELSE ~IsChain(Store, h1, h2, h3) =>
                 add_face(Store, h1, h2, h3) = not_chain

\* C7 witness: add_face was called on free halfedges that do not chain, in a
\* mesh that has a face
C7_Witness ==
  /\ last.op = "add_face" /\ err = add_face_error_not_chain
  /\ faces # {}

\* the edges with an endpoint at node n
IncidentEdges(s, n) == {edge(h) : h \in Outgoing(s, n) \cup Incoming(s, n)}

\* C8: split_face(f, p) on any face of a state reached by successful
\* mutations completes without error, adds 1 node, 3 edges and 2 faces; the
\* node it returns has exactly 3 incident edges whose halfedges all have a
\* face, and the three halfedges that bounded f bound the three faces around
\* the new node, one each.
C8_SplitFace ==
  (/\ err = NoError
   /\ Cardinality(nodes) < MaxNodes
   /\ Cardinality(edges) + 3 <= MaxEdges
   /\ Cardinality(faces) + 2 <= MaxFaces) =>
    \A f \in faces :
      LET h1 == face_halfedge[f]
          h2 == next[h1]
          h3 == prev[h1]
          r  == split_face(Store, f, Origin2)
          t  == r.s
          n  == r.ret
      IN  /\ t.err = NoError
          /\ n \in t.nodes \ nodes
          /\ Cardinality(t.nodes) = Cardinality(nodes) + 1
          /\ Cardinality(t.edges) = Cardinality(edges) + 3
          /\ Cardinality(t.faces) = Cardinality(faces) + 2
          /\ Cardinality(IncidentEdges(t, n)) = 3
          /\ \A h \in Outgoing(t, n) \cup Incoming(t, n) : t.face[h] # Null
          /\ Cardinality({t.face[h1], t.face[h2], t.face[h3]}) = 3
          /\ {t.face[h1], t.face[h2], t.face[h3]} = {t.face[h] : h \in Outgoing(t, n)}

\* C8 witness: split_face succeeded on a face of a mesh that keeps another
\* face
C8_Witness ==
  /\ err = NoError /\ last.op = "split_face" /\ last.ret \in nodes
  /\ Cardinality(faces) >= 4

\* C9: split_edge(e, p) on any edge with k incident faces of a state reached
\* by successful mutations completes without error, adds 1 node, k faces
\* and k + 1 edges; the node it returns has degree k + 2 and has a boundary
\* halfedge in its fan exactly when k < 2.
C9_SplitEdge ==
  (err = NoError /\ Cardinality(nodes) < MaxNodes) =>
    \A e \in edges :
      LET k == IncidentFaces(Store, e)
          r == split_edge(Store, e, Origin2)
          t == r.s
          n == r.ret
      IN  (/\ Cardinality(edges) + 1 + k <= MaxEdges
           /\ Cardinality(faces) + k <= MaxFaces) =>
            /\ t.err = NoError
            /\ n \in t.nodes \ nodes
            /\ Cardinality(t.nodes) = Cardinality(nodes) + 1
            /\ Cardinality(t.faces) = Cardinality(faces) + k
            /\ Cardinality(t.edges) = Cardinality(edges) + k + 1
            /\ Cardinality(IncidentEdges(t, n)) = k + 2
            /\ Cardinality(Outgoing(t, n)) = k + 2
            /\ (\E h \in Outgoing(t, n) : is_boundary(t, h)) <=> k < 2

\* C9 witness: split_edge succeeded on an edge with two faces
C9_Witness ==
  /\ err = NoError /\ last.op = "split_edge" /\ last.ret \in nodes
  /\ Cardinality(Outgoing(Store, last.ret)) = 4
  /\ \A h \in Outgoing(Store, last.ret) : ~is_boundary(Store, h)

\* the faces with a corner at node n
IncidentFaceSet(s, n) == {s.face[h] : h \in Outgoing(s, n)} \ {Null}

\* C10: remove_node(n) on a node of degree k makes exactly k remove_edge
\* calls, removes exactly the k edges and all the faces incident to n and
\* the node n, leaves no halfedge with origin n; a surviving halfedge of a
\* removed face is boundary, every other surviving halfedge keeps its face.
C10_RemoveNode ==
  err = NoError =>
    \A n \in nodes :
      LET k == Cardinality(IncidentEdges(Store, n))
          r == remove_node(Store, n)
          t == r.s
      IN  /\ t.err = NoError
          /\ r.ret = k
          /\ t.edges = edges \ IncidentEdges(Store, n)
          /\ t.faces = faces \ IncidentFaceSet(Store, n)
          /\ t.nodes = nodes \ {n}
          /\ \A h \in HalfedgeIds : t.origin[h] # n
          /\ \A h \in LiveHalfedges(t) :
               t.face[h] = IF face[h] \in IncidentFaceSet(Store, n) THEN Null ELSE face[h]

\* C10 witness: remove_node made three remove_edge calls and left a hole
\* bounded by boundary halfedges in a mesh that had faces
C10_Witness ==
  /\ err = NoError /\ last.op = "remove_node" /\ last.ret >= 3
  /\ edges # {} /\ faces = {}
  /\ ops = 1

\* The orbit of h under next: the halfedges visited up to the return to
\* start, or <<Null>> when next does not lead back to start.
RECURSIVE NextOrbit(_, _, _, _, _)
NextOrbit(s, start, h, acc, fuel) ==
  IF s.next[h] = start THEN Append(acc, h)
  ELSE IF fuel = 0 THEN <<Null>>
  ELSE NextOrbit(s, start, s.next[h], Append(acc, h), fuel - 1)

\* the boundary halfedges form exactly one simple cycle of next
BoundaryIsOneCycle(s) ==
  LET B == FreeHalfedges(s)
  IN  /\ B # {}
      /\ \A h \in B :
           LET c == NextOrbit(s, h, h, <<>>, 2 * MaxEdges)
           IN  Range(c) = B /\ Len(c) = Cardinality(B)

\* C11: in every state reached from the single triangle of scenario S1 by
\* split_face and split_edge calls, no call failed, V - E + F = 1 with F
\* the number of faces, and the boundary halfedges form exactly one simple
\* cycle of next.
C11_EulerAndBoundary ==
  /\ err = NoError
  /\ Cardinality(nodes) - Cardinality(edges) + Cardinality(faces) = 1
  /\ BoundaryIsOneCycle(Store)

\* C11 witness: three splits, the last one a split_edge of an interior
\* edge, gave a mesh of 6 nodes and 7 faces
C11_Witness ==
  /\ ops = 3 /\ last.op = "split_edge"
  /\ Cardinality(nodes) = 6 /\ Cardinality(faces) = 7
  /\ \A h \in Outgoing(Store, last.ret) : ~is_boundary(Store, h)

\* every node, edge and face of s is in t with the same pointers
SameEntities(s, t) ==
  /\ t.nodes = s.nodes /\ t.edges = s.edges /\ t.faces = s.faces
  /\ \A n \in s.nodes :
       t.node_halfedge[n] = s.node_halfedge[n] /\ t.position[n] = s.position[n]
  /\ \A h \in LiveHalfedges(s) :
       /\ t.next[h] = s.next[h] /\ t.prev[h] = s.prev[h]
       /\ t.origin[h] = s.origin[h] /\ t.face[h] = s.face[h]
  /\ \A f \in s.faces : t.face_halfedge[f] = s.face_halfedge[f]

\* C12: add_edge(n1, n2) between two isolated nodes succeeds, and
\* remove_edge of the edge it created right afterwards leaves n1 and n2
\* isolated again, the same edges in the store and every pointer of every
\* other node, halfedge and face as it was before add_edge.
C12_AddRemoveEdgeIsolated ==
  (err = NoError /\ Cardinality(edges) < MaxEdges) =>
    \A n1 \in nodes, n2 \in nodes :
      (n1 # n2 /\ is_isolated(Store, n1) /\ is_isolated(Store, n2)) =>
        LET r == add_edge(Store, n1, n2)
            t == remove_edge(r.s, edge(r.ret))
        IN  /\ r.s.err = NoError
            /\ ~is_isolated(r.s, n1) /\ ~is_isolated(r.s, n2)
            /\ t.err = NoError
            /\ is_isolated(t, n1) /\ is_isolated(t, n2)
            /\ Cardinality(t.edges) = Cardinality(edges)
            /\ SameEntities(Store, t)

\* C12 witness: on two isolated nodes and nothing else, add_edge and then
\* remove_edge were called
C12_Witness ==
  /\ err = NoError /\ ops = 2 /\ last.op = "remove_edge"
  /\ Cardinality(nodes) = 2 /\ edges = {}
  /\ \A n \in nodes : is_isolated(Store, n)

\* C20: for any two distinct nodes, isolated or not, on which
\* add_edge(n1, n2) succeeds, remove_edge of the created edge right
\* afterwards restores the next, prev, face and origin pointer of every
\* halfedge that existed before add_edge, the halfedge handle of every node
\* and the edge count.
C20_AddRemoveEdgeAnywhere ==
  (err = NoError /\ Cardinality(edges) < MaxEdges) =>
    \A n1 \in nodes, n2 \in nodes :
      n1 # n2 =>
        LET r == add_edge(Store, n1, n2)
            t == remove_edge(r.s, edge(r.ret))
        IN  r.s.err = NoError =>
              /\ t.err = NoError
              /\ \A h \in LiveHalfedges(Store) :
                   /\ t.next[h] = next[h] /\ t.prev[h] = prev[h]
                   /\ t.face[h] = face[h] /\ t.origin[h] = origin[h]
              /\ \A n \in nodes : t.node_halfedge[n] = node_halfedge[n]
              /\ Cardinality(t.edges) = Cardinality(edges)
              /\ t.edges = edges

\* C20 witness: on the single triangle, add_edge between two of its nodes
\* and then remove_edge of the new edge were called (the face is still
\* there, so the edge removed is not one of the three sides)
C20_Witness ==
  /\ err = NoError /\ ops = 2 /\ last.op = "remove_edge"
  /\ Cardinality(nodes) = 3 /\ Cardinality(edges) = 3 /\ Cardinality(faces) = 1
  /\ \A n \in nodes : ~is_isolated(Store, n)

\* C14: when add_face is called on three free halfedges that chain, its
\* first make_adjacent call succeeds and a later one throws, then no face
\* was created, h1, h2 and h3 are still boundary, next and prev are still
\* inverse bijections of the stored halfedges, h.next.origin = h.pair.origin
\* for every halfedge, and every node still has a single fan.
C14_ValidAfterFailedAddFace ==
  (err = NoError /\ ops < MaxOps /\ Cardinality(faces) < MaxFaces) =>
    \A h1 \in FreeHalfedges(Store) :
      \A h2 \in {h \in FreeHalfedges(Store) : origin[h] = origin[pair(h1)]} :
        \A h3 \in {h \in FreeHalfedges(Store) :
                      origin[h] = origin[pair(h2)] /\ origin[pair(h)] = origin[h1]} :
          LET s1 == make_adjacent(Store, h1, h2)
              r  == add_face(Store, h1, h2, h3)
              t  == r.s
          IN  (s1.err = NoError /\ t.err # NoError) =>
                /\ r.ret = Null
                /\ t.faces = faces /\ t.edges = edges /\ t.nodes = nodes
                /\ \A h \in LiveHalfedges(Store) :
                     t.face[h] = face[h] /\ t.origin[h] = origin[h]
                /\ AllFree(t, h1, h2, h3)
                /\ NoDangling(t)
                /\ HalfedgeInvariants(t)
                /\ NodeInvariants(t)
                /\ FaceInvariants(t)

\* C14 witness: add_face was called on the halfedges 13, 6, 4 of the square
\* with the outside edge; its first make_adjacent moved the dangling edge at
\* n4 (13.next is now 6), its second one threw at n3
C14_Witness ==
  /\ last.op = "add_face" /\ err = bad_topology_error /\ ops = 1
  /\ edges = SquareChord.edges /\ faces = SquareChord.faces
  /\ SquareChord.next[13] # 6 /\ next[13] = 6
  /\ next[6] # 4

\* C15: a remove_face(f) call deletes f and sets to null the face pointer
\* of f.halfedge, its next and its prev, and changes nothing else: no next,
\* prev or origin pointer, no node handle, no other face, no node or edge;
\* and remove_face of the face that a successful add_face just created
\* leaves the three halfedges of the call boundary and the faces and face
\* pointers as they were before add_face.
C15_RemoveFaceFrame ==
  /\ [][ (ops' = ops + 1 /\ last'.op = "remove_face") =>
           \E f \in faces :
             LET h == face_halfedge[f]
                 three == {h, next[h], prev[h]}
             IN  /\ err' = NoError
                 /\ faces' = faces \ {f}
                 /\ \A k \in HalfedgeIds :
                      face'[k] = IF k \in three THEN Null ELSE face[k]
                 /\ \A g \in faces' : face_halfedge'[g] = face_halfedge[g]
                 /\ next' = next /\ prev' = prev /\ origin' = origin
                 /\ node_halfedge' = node_halfedge /\ position' = position
                 /\ nodes' = nodes /\ edges' = edges ]_vars
  /\ []( (err = NoError /\ ops < MaxOps /\ Cardinality(faces) < MaxFaces) =>
          \A h1 \in FreeHalfedges(Store) :
            \A h2 \in {h \in FreeHalfedges(Store) : origin[h] = origin[pair(h1)]} :
              \A h3 \in {h \in FreeHalfedges(Store) :
                            origin[h] = origin[pair(h2)] /\ origin[pair(h)] = origin[h1]} :
                LET r == add_face(Store, h1, h2, h3)
                    t == remove_face(r.s, r.ret)
                IN  r.s.err = NoError =>
                      /\ ~AllFree(r.s, h1, h2, h3)
                      /\ t.err = NoError
                      /\ AllFree(t, h1, h2, h3)
                      /\ t.faces = faces
                      /\ \A k \in LiveHalfedges(Store) : t.face[k] = face[k]
                      /\ t.next = r.s.next /\ t.prev = r.s.prev )

\* C15 witness: on the single triangle, add_face on the three outer
\* halfedges and then remove_face of the face it created were called; the
\* first face is still there and the outer halfedges are boundary again
C15_Witness ==
  /\ err = NoError /\ ops = 2 /\ last.op = "remove_face"
  /\ Cardinality(nodes) = 3 /\ Cardinality(edges) = 3 /\ faces = {1}
  /\ AllFree(Store, 2, 6, 4)
  /\ next[2] = 6 /\ next[6] = 4 /\ next[4] = 2

\* C18: in every state reached by successful public mutations that has an
\* edge, some halfedge is boundary, so that boundary_halfedge() returns a
\* halfedge and not the null handle.
C18_AlwaysABoundaryHalfedge ==
  (err = NoError /\ edges # {}) =>
    /\ FreeHalfedges(Store) # {}
    /\ boundary_halfedge(Store) # Null

\* the two end points of halfedge h
Tail2(s, h) == s.position[s.origin[h]]
Head2(s, h) == s.position[s.origin[pair(h)]]

\* p is on the segment from a to b and is neither a nor b
OnOpenSegment(a, b, p) ==
  /\ (b[1] - a[1]) * (p[2] - a[2]) - (b[2] - a[2]) * (p[1] - a[1]) = 0
  /\ (p[1] - a[1]) * (b[1] - a[1]) + (p[2] - a[2]) * (b[2] - a[2]) > 0
  /\ (p[1] - b[1]) * (a[1] - b[1]) + (p[2] - b[2]) * (a[2] - b[2]) > 0

\* C13: when locate returns ON_EDGE with edge e, p is collinear with the
\* end points of e and strictly between them; when it returns ON_NODE with
\* node n, p is the position of n; and when a pass of the walk tests a
\* halfedge h with p on the open segment of h, that pass is the last one and
\* locate returns ON_EDGE with the edge of h.
C13_LocateOnEdgeOnNode ==
  last.op = "locate" =>
    LET r == last.ret
    IN  /\ r.loc = ON_EDGE =>
             /\ r.on_edge \in edges
             /\ OnOpenSegment(Tail2(Store, he1(r.on_edge)),
                              Head2(Store, he1(r.on_edge)), last.p)
        /\ r.loc = ON_NODE =>
             /\ r.on_node \in nodes
             /\ position[r.on_node] = last.p
        /\ \A i \in 1..Len(r.tested) :
             OnOpenSegment(Tail2(Store, r.tested[i]), Head2(Store, r.tested[i]), last.p) =>
               /\ i = Len(r.tested)
               /\ r.loc = ON_EDGE
               /\ r.on_edge = edge(r.tested[i])

\* C13 witness: after crossing an edge, locate returned ON_EDGE with an edge
\* parallel to the y axis
C13_Witness ==
  /\ last.op = "locate" /\ last.ret.loc = ON_EDGE
  /\ Len(last.ret.tested) >= 3
  /\ last.ret.tested[1] \notin FaceCycle(Store, face[last.ret.tested[Len(last.ret.tested)]])
  /\ Tail2(Store, he1(last.ret.on_edge))[1] = Head2(Store, he1(last.ret.on_edge))[1]

\* C16: every locate call on a triangulation with a face returns, with one
\* of IN_FACE, ON_EDGE, ON_NODE and OUTSIDE_MESH, whatever the point and the
\* start face, also on a triangulation that is not Delaunay.
C16_LocateTerminates ==
  last.op = "locate" =>
    last.ret.loc \in {IN_FACE, ON_EDGE, ON_NODE, OUTSIDE_MESH}

\* C17: when locate returns IN_FACE with face f, p is strictly to the left
\* of each of the three halfedges of f, also when the walk crossed an edge
\* by the fall through of the collinear case and did not test the halfedge
\* by which it entered f.
C17_InFaceIsInside ==
  (last.op = "locate" /\ last.ret.loc = IN_FACE) =>
    /\ last.ret.face \in faces
    /\ Cardinality(FaceCycle(Store, last.ret.face)) = 3
    /\ \A h \in FaceCycle(Store, last.ret.face) :
         oriented_side(Tail2(Store, h), Head2(Store, h), last.p) = ON_POSITIVE_SIDE

\* C17 witness: locate returned IN_FACE with a face it entered by a
\* halfedge it did not test, after a walk that crossed an edge by the fall
\* through of the collinear case
C17_Witness ==
  /\ last.op = "locate" /\ last.ret.loc = IN_FACE
  /\ last.ret.fell # {}
  /\ \E h \in FaceCycle(Store, last.ret.face) : h \notin Range(last.ret.tested)

\* p is in a face, on an edge or on a node of the mesh
InMesh(s, p) ==
  \E f \in s.faces :
    \A h \in FaceCycle(s, f) :
      oriented_side(Tail2(s, h), Head2(s, h), p) # ON_NEGATIVE_SIDE

\* the faces cover a convex region: the boundary is one cycle that never
\* turns away from the faces
ConvexRegion(s) ==
  /\ BoundaryIsOneCycle(s)
  /\ \A h \in FreeHalfedges(s) :
       oriented_side(Tail2(s, h), Head2(s, h), Head2(s, s.next[h])) # ON_POSITIVE_SIDE

\* C19: on a triangulation whose faces cover a convex region, locate does
\* not return OUTSIDE_MESH for a point that is in a face, on an edge or on a
\* node of the mesh, whatever the start face.
C19_InMeshNotOutside ==
  (last.op = "locate" /\ ConvexRegion(Store) /\ InMesh(Store, last.p)) =>
    last.ret.loc # OUTSIDE_MESH

====
